---- MODULE Spec2Model ----
(***************************************************************************)
(* The OME-Zarr writers of iohub (iohub/writer.py): OMEZarrWriter, which   *)
(* writes z-stacks into 5D (T,C,Z,Y,X) arrays of an existing Zarr store    *)
(* and keeps the multiscales/omero document, and HCSWriter, which adds the *)
(* plate / row / well / position hierarchy with its registries and the     *)
(* well and plate documents.                                               *)
(*                                                                         *)
(* A group of the store is named by its path, a sequence of name keys:     *)
(* <<>> is the root, <<"A">> a row, <<"A","1">> a well, <<"A","1","0">> a  *)
(* position.  A z-stack is a block of pixels, named by a positive block    *)
(* id; 0 is the zero fill of the store.                                    *)
(*                                                                         *)
(* The readers of Micro-Manager datasets (iohub/reader_base.py: ReaderBase,*)
(* iohub/mm_fov.py: MicroManagerFOVMapping) hold the stage positions of    *)
(* the acquisition and parse their labels into (row, column, FOV) names.   *)
(* A string is the sequence of its characters.                             *)
(***************************************************************************)
EXTENDS Integers, Sequences, FiniteSets, TLC

VARIABLES kind,           \* class of the object the calls are made on
          channel_names,  \* self.channel_names
          groups,         \* the groups of the Zarr store (paths)
          arrays,         \* the arrays of the store: <<group, name>> -> array
          attrs,          \* the attribute document (.zattrs) of each group
          images_meta,    \* OMEZarrWriter: self.images_meta
          rows,           \* HCSWriter: self.rows, in insertion order
          columns,        \* HCSWriter: self.columns
          wells,          \* HCSWriter: self.wells
          positions,      \* HCSWriter: self.positions
          plate_meta,     \* HCSWriter: self.plate_meta
          stage_positions,\* readers: the "Label" of each of self.stage_positions
          metadata,       \* NGFF nodes: self.metadata
          iohub,          \* NGFF nodes: self.zattrs["iohub"]
          lifecycle,      \* NGFF nodes: Unopened, Open or Closed
          scope,          \* NGFF nodes: where the caller is in a with block
          tiles,          \* TiledPosition: the array made by make_tiles
          calls,          \* number of calls made on the writer
          last            \* the last call: its name, arguments and outcome

vars == <<kind, channel_names, groups, arrays, attrs, images_meta, rows,
          columns, wells, positions, plate_meta, stage_positions, metadata,
          iohub, lifecycle, scope, tiles, calls, last>>

hcsVars == <<rows, columns, wells, positions, plate_meta>>
readerVars == <<stage_positions>>
nodeVars == <<metadata, iohub, lifecycle, scope, tiles>>
nodeRest == <<iohub, lifecycle, scope, tiles>>

(***************************************************************************)
(* Bounds and input sets                                                   *)
(***************************************************************************)
\* calls made on an OMEZarrWriter in one behaviour
MaxWrites == 2
\* calls made on an HCSWriter in one behaviour
MaxCalls == 3
\* calls made on the HCSWriter of a one-well plate in one behaviour
MaxPlateCalls == 4

\* Python's None, by the type of the value it stands in for: a name, an
\* integer index, a list of transformations, a metadata object or document
None == "None"
NoIndex == -1
NoTransform == <<>>
NoDoc == [none |-> TRUE]
Root == <<>>

\* data.shape of the blocks handed to write_zstack: 2D, two 3D, 4D
Shapes == { <<2, 2>>, <<1, 2, 2>>, <<1, 2, 3>>, <<1, 1, 2, 2>> }
\* (time_index, channel_index): in range, growing either axis, negative
Indices == { <<0, 0>>, <<1, 0>>, <<0, 1>>, <<-1, 0>>, <<0, -1>> }
\* name argument: None stands for the writer's arr_name
NameArgs == {None, "1"}
Transforms == {NoTransform}
AdditionalMetas == {None}
\* groups of the existing store an OMEZarrWriter is constructed on
StoreGroups == {Root, <<"fov">>}
RowNames == {"A", "B"}
ColNames == {"1", "2"}
FovNames == {"0", "1"}
\* the blocks, indices and names handed to HCSWriter.write_zstack
HcsShapes == { <<1, 2, 2>>, <<1, 2, 3>> }
HcsIndices == { <<0, 0>>, <<-1, 0>>, <<0, -1>> }
\* the one-well plate: its names, and the arguments of its writes
PlateRowNames == {"A"}
PlateColNames == {"1"}
PlateFovNames == {"0"}
PlateIndexArgs == {NoIndex}
PlateShapes == { <<1, 2, 2>> }
PlateIndices == { <<0, 0>> }
PlateTransforms == {NoTransform, <<"scale">>}
IndexArgs == {NoIndex, 0, 1}
\* lengths of the channel_names list given to the constructor
ChannelCounts == {2, 5}
HcsChannelCounts == {2}

(***************************************************************************)
(* Python helpers                                                          *)
(***************************************************************************)
\* truth value of an Optional[int] argument: None and 0 are falsy
Truthy(x) == x # NoIndex /\ x # 0

Max(a, b) == IF a >= b THEN a ELSE b

\* dict operations on a dict kept as the sequence of its items, each item
\* a record with the key in field "name"
DictKeys(d) == { d[i].name : i \in 1..Len(d) }
DictGet(d, k) == d[CHOOSE i \in 1..Len(d) : d[i].name = k]
DictPut(d, item) ==
    IF item.name \in DictKeys(d)
    THEN [i \in 1..Len(d) |-> IF d[i].name = item.name THEN item ELSE d[i]]
    ELSE Append(d, item)

SeqToSet(s) == { s[i] : i \in 1..Len(s) }

\* os.path.dirname / basename of a group path
Dirname(p) == SubSeq(p, 1, Len(p) - 1)
Basename(p) == p[Len(p)]

(***************************************************************************)
(* The store engine (zarr): arrays and attribute documents                 *)
(***************************************************************************)
\* an attribute document with none of the keys the writers use
EmptyAttrs == [images |-> NoDoc, well |-> NoDoc, plate |-> NoDoc]

\* Attributes.put(d): the document is replaced as a whole by the
\* multiscales/omero keys of d
AttrsPut(d) == [images |-> d, well |-> NoDoc, plate |-> NoDoc]

\* Group.zeros(name, shape=(1, 1, *zyx_shape)): a zero-filled array
Zeros(zyx_shape) ==
    [shape |-> <<1, 1>> \o zyx_shape, data |-> [k \in {<<0, 0>>} |-> 0]]

\* a resize that leaves zeros in every slab
Resize_Cleared(array, T, C, zyx_shape) ==
    [shape |-> <<T, C>> \o zyx_shape,
     data  |-> [k \in (0..(T - 1)) \X (0..(C - 1)) |-> 0]]

\* Array.resize(T, C, *zyx_shape): slabs kept where they exist, zeros elsewhere
Resize(array, T, C, zyx_shape) ==
    [shape |-> <<T, C>> \o zyx_shape,
     data  |-> [k \in (0..(T - 1)) \X (0..(C - 1)) |->
                   IF k \in DOMAIN array.data THEN array.data[k] ELSE 0]]

\* an index into an axis of length n: negative indices count from the end
AxisIndex(i, n) == IF i < 0 THEN i + n ELSE i

\* data.shape[-3:]
ZyxOf(shape) == SubSeq(shape, Len(shape) - 2, Len(shape))

\* array[time_index, channel_index] = data, as the engine decides it: a block
\* of the slab's shape is stored; a block with more dimensions whose leading
\* extents are all 1 is stored by an engine that broadcasts and refused by
\* one that compares shapes; any other block is refused
SetItemResults(array, shape) ==
    LET slab == SubSeq(array.shape, 3, 5) IN
    IF shape = slab THEN {"ok"}
    ELSE IF /\ Len(shape) > 3
            /\ ZyxOf(shape) = slab
            /\ \A i \in 1..(Len(shape) - 3) : shape[i] = 1
         THEN {"ok", "ValueError"}
         ELSE {"ValueError"}

SetItem(array, t, c, blk) ==
    [array EXCEPT !.data[<<AxisIndex(t, array.shape[1]),
                           AxisIndex(c, array.shape[2])>>] = blk]

\* the names under a group: its arrays and its child groups
ChildGroups(grps, group) ==
    { g \in grps : Len(g) = Len(group) + 1 /\ Dirname(g) = group }
ChildArrays(arrs, group) == { k \in DOMAIN arrs : k[1] = group }

(***************************************************************************)
(* OMEZarrWriter                                                           *)
(***************************************************************************)
\* self.arr_name, the default of the constructor
ArrName == "0"

\* `if not name: name = self.arr_name`
NameOf(name) == IF name = None THEN ArrName ELSE name

\* a comparison of the number of trailing dimensions only
ShapeCompatible_LengthOnly(value_shape, zyx_shape) ==
    Len(SubSeq(value_shape, 3, 5)) = Len(zyx_shape)

\* the comparison of require_array: value.shape[-3:] == zyx_shape
ShapeCompatible(value_shape, zyx_shape) == SubSeq(value_shape, 3, 5) = zyx_shape

\* require_array(group, name, zyx_shape): what is raised (None if nothing)
\* and the arrays of the store afterwards
RequireArray(grps, arrs, group, name, zyx_shape) ==
    LET key == <<group, name>>
        child == Append(group, name)
    IN  IF Len(zyx_shape) # 3
        THEN [raised |-> "ValueError", arrays |-> arrs]
        ELSE IF child \in grps
        THEN \* the name maps to a group: truthy when it has members; an empty
             \* group falls through every branch and None is returned
             IF ChildGroups(grps, child) \cup ChildArrays(arrs, child) # {}
             THEN [raised |-> "FileExistsError", arrays |-> arrs]
             ELSE [raised |-> "AttributeError", arrays |-> arrs]
        ELSE IF key \in DOMAIN arrs
        THEN IF ShapeCompatible(arrs[key].shape, zyx_shape)
             THEN [raised |-> None, arrays |-> arrs]
             ELSE [raised |-> "FileExistsError", arrays |-> arrs]
        ELSE [raised |-> None, arrays |-> (key :> Zeros(zyx_shape)) @@ arrs]

\* a check of the time index alone
NegativeIndex_TimeOnly(time_index, channel_index) == time_index < 0

\* the argument checks of write_zstack
TooFewDimensions(shape) == Len(shape) < 3
NegativeIndex(time_index, channel_index) == time_index < 0 \/ channel_index < 0

\* an extent that follows the index instead of the maximum
GrowExtent_ToIndex(index, extent) == index + 1

\* the extent an axis is resized to: max(index + 1, extent)
GrowExtent(index, extent) == Max(index + 1, extent)

\* write_zstack up to the write of the slab (lines 173-191): the outcomes,
\* each with what is raised and the arrays of the store afterwards
WriteSlab(grps, arrs, group, name, shape, time_index, channel_index, blk) ==
    IF TooFewDimensions(shape)
    THEN {[raised |-> "ValueError", arrays |-> arrs]}
    ELSE IF NegativeIndex(time_index, channel_index)
    THEN {[raised |-> "ValueError", arrays |-> arrs]}
    ELSE
    LET zyx_shape == ZyxOf(shape)
        req == RequireArray(grps, arrs, group, name, zyx_shape)
    IN  IF req.raised # None THEN {req}
        ELSE
        LET key == <<group, name>>
            array == req.arrays[key]
            resized ==
                IF \/ time_index >= array.shape[1]
                   \/ channel_index >= array.shape[2]
                THEN Resize(array,
                            GrowExtent(time_index, array.shape[1]),
                            GrowExtent(channel_index, array.shape[2]),
                            zyx_shape)
                ELSE array
        IN  { IF r = "ok"
              THEN [raised |-> None,
                    arrays |-> [req.arrays EXCEPT
                        ![key] = SetItem(resized, time_index, channel_index, blk)]]
              ELSE [raised |-> r,
                    arrays |-> [req.arrays EXCEPT ![key] = resized]]
            : r \in SetItemResults(resized, shape) }

\* _dataset_meta(name, transform)
DatasetMeta(name, transform) ==
    [path |-> name,
     coordinate_transformations |->
        IF transform = NoTransform THEN <<"identity">> ELSE transform]

\* clims = [None] * 4
NumClims == 4

\* _omero_meta(id, group): one channel per pair of zip(channel_names, clims);
\* first_chan is set at i == 0 and never cleared
OmeroMeta(names, id, group) ==
    [id |-> id,
     name |-> group,
     channels |->
        [i \in 1..(IF Len(names) < NumClims THEN Len(names) ELSE NumClims) |->
            [label |-> names[i], first_chan |-> TRUE]]]

\* MultiScaleMeta.get_dataset_paths()
DatasetPaths(multiscale) ==
    { multiscale.datasets[i].path : i \in 1..Len(multiscale.datasets) }

\* ImagesMeta with one multiscale holding one dataset
NewImagesMeta(dataset_meta, additional_meta, omero) ==
    [multiscales |-> [datasets |-> <<dataset_meta>>, metadata |-> additional_meta],
     omero |-> omero]

\* multiscales[0].datasets.append(dataset_meta) unless the path is listed
AddDataset(meta, dataset_meta) ==
    IF dataset_meta.path \notin DatasetPaths(meta.multiscales)
    THEN [meta EXCEPT !.multiscales.datasets = Append(@, dataset_meta)]
    ELSE meta

\* OMEZarrWriter._dump_zstack_meta: the new self.images_meta
OmeDumpedImagesMeta(name, transform, additional_meta) ==
    IF attrs[Root].images = NoDoc
    THEN NewImagesMeta(DatasetMeta(name, transform), additional_meta,
                       OmeroMeta(channel_names, 0, Root))
    ELSE AddDataset(images_meta, DatasetMeta(name, transform))

(***************************************************************************)
(* HCSWriter                                                               *)
(***************************************************************************)
\* the store's attribute documents once the groups grps exist
WithGroups(docs, grps) ==
    [g \in grps |-> IF g \in DOMAIN docs THEN docs[g] ELSE EmptyAttrs]

\* the id given to a new row or column: the requested index if truthy, else
\* the number of entries registered
NewId(index, registry) == IF Truthy(index) THEN index ELSE Len(registry)

\* require_row(name, index): what is raised, self.rows and the groups after
RequireRow(rws, grps, name, index) ==
    IF name \in DictKeys(rws)
    THEN IF Truthy(index) /\ DictGet(rws, name).id # index
         THEN [raised |-> "ValueError", rows |-> rws, groups |-> grps]
         ELSE [raised |-> None, rows |-> rws, groups |-> grps \cup {<<name>>}]
    ELSE [raised |-> None,
          rows |-> Append(rws, [name |-> name, id |-> NewId(index, rws)]),
          groups |-> grps \cup {<<name>>}]

\* the column step of require_well (lines 423-435): what is raised and
\* self.columns after
RequireColumn(cls, col_name, col_index) ==
    IF col_name \in DictKeys(cls) /\ Truthy(col_index)
    THEN IF DictGet(cls, col_name).id # col_index
         THEN [raised |-> "ValueError", columns |-> cls]
         ELSE [raised |-> None, columns |-> cls]
    ELSE [raised |-> None,
          columns |-> DictPut(cls, [name |-> col_name,
                                    id |-> NewId(col_index, cls)])]

\* require_well(row_name, col_name, row_index, col_index)
RequireWell(rws, cls, wls, grps, row_name, col_name, row_index, col_index) ==
    LET well_name == <<row_name, col_name>>
        row == RequireRow(rws, grps, row_name, row_index)
        col == RequireColumn(cls, col_name, col_index)
    IN  IF row.raised # None
        THEN [raised |-> row.raised, rows |-> rws, columns |-> cls,
              wells |-> wls, groups |-> grps]
        ELSE IF col.raised # None
        THEN [raised |-> col.raised, rows |-> row.rows, columns |-> cls,
              wells |-> wls, groups |-> row.groups]
        ELSE [raised |-> None, rows |-> row.rows, columns |-> col.columns,
              wells |->
                 IF well_name \notin DictKeys(wls)
                 THEN Append(wls,
                        [name |-> well_name,
                         meta |-> [path |-> well_name,
                                   rowIndex |-> DictGet(row.rows, row_name).id,
                                   columnIndex |-> DictGet(col.columns, col_name).id],
                         positions |-> <<>>,
                         image_meta_list |-> <<>>])
                 ELSE wls,
              groups |-> row.groups \cup {well_name}]

\* the id given by require_position: len(self.positions)
PositionId(psn, position) == Len(psn)

\* the registration of a position in self.positions (line 469)
RegisterPosition(psn, position) ==
    DictPut(psn, [name |-> position, id |-> PositionId(psn, position),
                  attrs |-> NoDoc])

\* a registration that does not look for the position in the well
AddToWell_Always(wls, well_name, position, acq_id) ==
    LET well == DictGet(wls, well_name) IN
    DictPut(wls,
        [well EXCEPT
            !.image_meta_list =
                Append(@, [acquisition |-> acq_id, path |-> Basename(position)]),
            !.positions = Append(@, position)])

\* the registration of a position in its well (lines 470-473)
AddToWell(wls, well_name, position, acq_id) ==
    LET well == DictGet(wls, well_name) IN
    IF position \notin SeqToSet(well.positions)
    THEN DictPut(wls,
            [well EXCEPT
                !.image_meta_list =
                    Append(@, [acquisition |-> acq_id, path |-> Basename(position)]),
                !.positions = Append(@, position)])
    ELSE wls

\* require_position(row, column, fov, acq_id, **kwargs)
RequirePosition(rws, cls, wls, psn, grps, row, column, fov, acq_id, row_index, col_index) ==
    LET well == RequireWell(rws, cls, wls, grps, row, column, row_index, col_index)
        position == <<row, column, fov>>
    IN  IF well.raised # None
        THEN [raised |-> well.raised, rows |-> well.rows, columns |-> well.columns,
              wells |-> well.wells, positions |-> psn, groups |-> well.groups]
        ELSE [raised |-> None, rows |-> well.rows, columns |-> well.columns,
              wells |-> AddToWell(well.wells, <<row, column>>, position, acq_id),
              positions |-> RegisterPosition(psn, position),
              groups |-> well.groups \cup {position}]

\* HCSWriter._dump_zstack_meta: the images metadata of the position after
HcsDumpedImagesMeta(pos_meta, position, name, transform, additional_meta) ==
    IF pos_meta.attrs = NoDoc
    THEN NewImagesMeta(DatasetMeta(name, transform), additional_meta,
                       OmeroMeta(channel_names, pos_meta.id, position))
    ELSE AddDataset(pos_meta.attrs, DatasetMeta(name, transform))

\* the WellGroupMeta document of _dump_well_meta
WellGroupMeta(wls, well_name) ==
    [images |-> DictGet(wls, well_name).image_meta_list]

\* the PlateMeta document of _dump_plate_meta
PlateMeta(rws, cls, wls, psn) ==
    [rows |-> [i \in 1..Len(rws) |-> [name |-> rws[i].name]],
     columns |-> [i \in 1..Len(cls) |-> [name |-> cls[i].name]],
     wells |-> [i \in 1..Len(wls) |-> wls[i].meta],
     field_count |-> Len(psn)]

(***************************************************************************)
(* The state after construction                                            *)
(***************************************************************************)
InitWriter(class, counts) ==
    /\ kind = class
    /\ \E n \in counts : channel_names = [i \in 1..n |-> i]
    /\ groups = IF kind = "OMEZarrWriter" THEN StoreGroups ELSE {Root}
    /\ arrays = <<>>
    /\ attrs = [g \in groups |-> EmptyAttrs]
    /\ images_meta = NoDoc
    /\ rows = <<>>
    /\ columns = <<>>
    /\ wells = <<>>
    /\ positions = <<>>
    /\ plate_meta = NoDoc
    /\ stage_positions = <<>>
    /\ metadata = NoDoc
    /\ iohub = <<>>
    /\ lifecycle = "Open"
    /\ scope = "none"
    /\ tiles = NoDoc
    /\ calls = 0
    /\ last = [op |-> "__init__", result |-> "ok", args |-> <<>>]

Outcome(raised) == IF raised = None THEN "ok" ELSE raised

(***************************************************************************)
(* OMEZarrWriter.write_zstack                                              *)
(***************************************************************************)
OmeWriteZstack(shape, group, time_index, channel_index, transform, name, auto_meta, additional_meta) ==
    /\ kind = "OMEZarrWriter"
    /\ \E out \in WriteSlab(groups, arrays, group, NameOf(name), shape,
                            time_index, channel_index, calls + 1) :
          /\ arrays' = out.arrays
          /\ IF out.raised = None /\ auto_meta
             THEN /\ images_meta' =
                       OmeDumpedImagesMeta(NameOf(name), transform, additional_meta)
                  /\ attrs' = [attrs EXCEPT ![Root] = AttrsPut(images_meta')]
             ELSE UNCHANGED <<images_meta, attrs>>
          /\ last' = [op |-> "write_zstack", result |-> Outcome(out.raised),
                      args |-> [group |-> group, name |-> name, shape |-> shape,
                                time_index |-> time_index,
                                channel_index |-> channel_index,
                                transform |-> transform, auto_meta |-> auto_meta,
                                additional_meta |-> additional_meta]]
    /\ calls' = calls + 1
    /\ UNCHANGED <<kind, channel_names, groups, hcsVars, readerVars, nodeVars>>

(***************************************************************************)
(* HCSWriter.require_row, require_well, require_position                   *)
(***************************************************************************)
RequireRowCall(name, index) ==
    /\ kind = "HCSWriter"
    /\ LET out == RequireRow(rows, groups, name, index) IN
          /\ rows' = out.rows
          /\ groups' = out.groups
          /\ attrs' = WithGroups(attrs, out.groups)
          /\ last' = [op |-> "require_row", result |-> Outcome(out.raised),
                      args |-> [name |-> name, index |-> index]]
    /\ calls' = calls + 1
    /\ UNCHANGED <<kind, channel_names, arrays, images_meta, columns, wells,
                   positions, plate_meta, readerVars, nodeVars>>

RequireWellCall(row_name, col_name, row_index, col_index) ==
    /\ kind = "HCSWriter"
    /\ LET out == RequireWell(rows, columns, wells, groups, row_name, col_name,
                              row_index, col_index) IN
          /\ rows' = out.rows
          /\ columns' = out.columns
          /\ wells' = out.wells
          /\ groups' = out.groups
          /\ attrs' = WithGroups(attrs, out.groups)
          /\ last' = [op |-> "require_well", result |-> Outcome(out.raised),
                      args |-> [row_name |-> row_name, col_name |-> col_name,
                                row_index |-> row_index, col_index |-> col_index]]
    /\ calls' = calls + 1
    /\ UNCHANGED <<kind, channel_names, arrays, images_meta, positions,
                   plate_meta, readerVars, nodeVars>>

RequirePositionCall(row, column, fov, acq_id, row_index, col_index) ==
    /\ kind = "HCSWriter"
    /\ LET out == RequirePosition(rows, columns, wells, positions, groups, row,
                                  column, fov, acq_id, row_index, col_index) IN
          /\ rows' = out.rows
          /\ columns' = out.columns
          /\ wells' = out.wells
          /\ positions' = out.positions
          /\ groups' = out.groups
          /\ attrs' = WithGroups(attrs, out.groups)
          /\ last' = [op |-> "require_position", result |-> Outcome(out.raised),
                      args |-> [row |-> row, column |-> column, fov |-> fov,
                                acq_id |-> acq_id, row_index |-> row_index,
                                col_index |-> col_index]]
    /\ calls' = calls + 1
    /\ UNCHANGED <<kind, channel_names, arrays, images_meta, plate_meta,
                   readerVars, nodeVars>>

(***************************************************************************)
(* HCSWriter.write_zstack                                                  *)
(***************************************************************************)
HcsWriteZstack(shape, position, time_index, channel_index, transform, name, auto_meta, additional_meta) ==
    /\ kind = "HCSWriter"
    /\ position \in DictKeys(positions)
    /\ \E out \in WriteSlab(groups, arrays, position, NameOf(name), shape,
                            time_index, channel_index, calls + 1) :
          /\ arrays' = out.arrays
          /\ IF out.raised # None
             THEN UNCHANGED <<attrs, positions, plate_meta>>
             ELSE LET pos_meta == DictGet(positions, position)
                      images == HcsDumpedImagesMeta(pos_meta, position,
                                    NameOf(name), transform, additional_meta)
                      well_name == Dirname(position)
                      dumped == IF auto_meta
                                THEN [attrs EXCEPT ![position] = AttrsPut(images)]
                                ELSE attrs
                  IN  /\ positions' =
                           IF auto_meta
                           THEN DictPut(positions, [pos_meta EXCEPT !.attrs = images])
                           ELSE positions
                      /\ plate_meta' = PlateMeta(rows, columns, wells, positions')
                      /\ attrs' = [dumped EXCEPT
                             ![well_name].well = WellGroupMeta(wells, well_name),
                             ![Root].plate = plate_meta']
          /\ last' = [op |-> "write_zstack", result |-> Outcome(out.raised),
                      args |-> [group |-> position, name |-> name, shape |-> shape,
                                time_index |-> time_index,
                                channel_index |-> channel_index,
                                transform |-> transform, auto_meta |-> auto_meta,
                                additional_meta |-> additional_meta]]
    /\ calls' = calls + 1
    /\ UNCHANGED <<kind, channel_names, groups, images_meta, rows, columns, wells,
                   readerVars, nodeVars>>

(***************************************************************************)
(* Specifications                                                          *)
(***************************************************************************)
\* an OMEZarrWriter on an existing store
InitOME == InitWriter("OMEZarrWriter", ChannelCounts)

NextOME ==
    /\ calls < MaxWrites
    /\ \E shape \in Shapes, group \in StoreGroups, tc \in Indices,
          transform \in Transforms, name \in NameArgs, auto_meta \in BOOLEAN,
          additional_meta \in AdditionalMetas :
            OmeWriteZstack(shape, group, tc[1], tc[2], transform, name,
                           auto_meta, additional_meta)

SpecOME == InitOME /\ [][NextOME]_vars

\* an HCSWriter on an empty store
InitHCS == InitWriter("HCSWriter", HcsChannelCounts)

HcsRequireRow(names, indices) ==
    \E name \in names, index \in indices : RequireRowCall(name, index)

HcsRequireWell(rowNames, colNames, indices) ==
    \E row_name \in rowNames, col_name \in colNames, col_index \in indices :
        RequireWellCall(row_name, col_name, NoIndex, col_index)

HcsRequirePosition(rowNames, colNames, fovNames) ==
    \E row \in rowNames, column \in colNames, fov \in fovNames :
        RequirePositionCall(row, column, fov, 0, NoIndex, NoIndex)

HcsWrite(shapes, indices, transforms) ==
    \E shape \in shapes, position \in DictKeys(positions), tc \in indices,
       transform \in transforms, name \in NameArgs, auto_meta \in BOOLEAN,
       additional_meta \in AdditionalMetas :
        HcsWriteZstack(shape, position, tc[1], tc[2], transform, name,
                       auto_meta, additional_meta)

Next ==
    /\ calls < MaxCalls
    /\ \/ HcsRequireRow(RowNames, IndexArgs)
       \/ HcsRequireWell(RowNames, ColNames, IndexArgs)
       \/ HcsRequirePosition(RowNames, ColNames, FovNames)
       \/ HcsWrite(HcsShapes, HcsIndices, Transforms)

Spec == InitHCS /\ [][Next]_vars

\* an HCSWriter filling a plate of one well with one position
NextPlate ==
    /\ calls < MaxPlateCalls
    /\ \/ HcsRequireRow(PlateRowNames, PlateIndexArgs)
       \/ HcsRequireWell(PlateRowNames, PlateColNames, PlateIndexArgs)
       \/ HcsRequirePosition(PlateRowNames, PlateColNames, PlateFovNames)
       \/ HcsWrite(PlateShapes, PlateIndices, PlateTransforms)

SpecPlate == InitHCS /\ [][NextPlate]_vars

(***************************************************************************)
(* Python strings                                                          *)
(***************************************************************************)
Digits == {"0", "1", "2", "3", "4", "5", "6", "7", "8", "9"}
Letters ==
    {"A", "B", "C", "D", "E", "F", "G", "H", "I", "J", "K", "L", "M",
     "N", "O", "P", "Q", "R", "S", "T", "U", "V", "W", "X", "Y", "Z"}

\* the separators of the two label formats
SiteSep == <<"-", "S", "i", "t", "e", "_">>
PosSep == <<"-", "P", "o", "s">>

\* sep occurs in s at index k
OccursAt(s, sep, k) ==
    /\ k + Len(sep) - 1 <= Len(s)
    /\ SubSeq(s, k, k + Len(sep) - 1) = sep

\* str.split(sep): the parts of s between the occurrences of sep, found from
\* the left and not overlapping
RECURSIVE Split(_, _)
Split(s, sep) ==
    LET found == { k \in 1..Len(s) : OccursAt(s, sep, k) } IN
    IF found = {} THEN <<s>>
    ELSE LET k == CHOOSE x \in found : \A y \in found : x <= y
         IN  <<SubSeq(s, 1, k - 1)>> \o Split(SubSeq(s, k + Len(sep), Len(s)), sep)

\* str.replace(ch, ""): every occurrence of the character removed
Remove(s, ch) == SelectSeq(s, LAMBDA c : c # ch)

\* int(s) accepts an optional sign followed by decimal digits
Unsigned(s) == IF s # <<>> /\ Head(s) \in {"-", "+"} THEN Tail(s) ELSE s
IsIntLiteral(s) ==
    /\ Unsigned(s) # <<>>
    /\ \A i \in 1..Len(Unsigned(s)) : Unsigned(s)[i] \in Digits

\* str(int(s)): leading zeros dropped, the sign kept for a negative number
RECURSIVE StripZeros(_)
StripZeros(s) ==
    IF Len(s) > 1 /\ Head(s) = "0" THEN StripZeros(Tail(s)) ELSE s

StrInt(s) ==
    LET digits == StripZeros(Unsigned(s)) IN
    IF Head(s) = "-" /\ digits # <<"0">> THEN <<"-">> \o digits ELSE digits

(***************************************************************************)
(* ReaderBase and MicroManagerFOVMapping: hcs_position_labels              *)
(***************************************************************************)
ReaderClasses == {"ReaderBase", "MicroManagerFOVMapping"}

\* the list [pos["Label"].split(sep) for pos in self.stage_positions]
SplitLabels(sp, sep) == [i \in 1..Len(sp) |-> Split(sp[i], sep)]

\* `for a, b in labels` unpacks every element: each has exactly two parts
Unpacks(labels) == \A i \in 1..Len(labels) : Len(labels[i]) = 2

\* the '-Site_' branch: (well[0], well[1:], fov); well[0] fails on ""
SiteParses(sp) ==
    LET labels == SplitLabels(sp, SiteSep) IN
    /\ Unpacks(labels)
    /\ \A i \in 1..Len(labels) : labels[i][1] # <<>>

SiteTriples(sp) ==
    LET labels == SplitLabels(sp, SiteSep) IN
    [i \in 1..Len(sp) |->
        << <<Head(labels[i][1])>>, Tail(labels[i][1]), labels[i][2] >>]

\* the '-Pos' branch of MicroManagerFOVMapping: ("0", col, fov.replace("_", ""))
PosParses(sp) == Unpacks(SplitLabels(sp, PosSep))

PosTriples(sp) ==
    LET labels == SplitLabels(sp, PosSep) IN
    [i \in 1..Len(sp) |->
        << <<"0">>, labels[i][1], Remove(labels[i][2], "_") >>]

\* the '-Pos' branch of ReaderBase:
\* (row, *[str(int(s)) for s in col_fov.split("_")])
BasePosParses(sp) ==
    LET labels == SplitLabels(sp, PosSep) IN
    /\ Unpacks(labels)
    /\ \A i \in 1..Len(labels) :
          LET parts == Split(labels[i][2], <<"_">>) IN
          \A j \in 1..Len(parts) : IsIntLiteral(parts[j])

BasePosTuples(sp) ==
    LET labels == SplitLabels(sp, PosSep) IN
    [i \in 1..Len(sp) |->
        LET parts == Split(labels[i][2], <<"_">>) IN
        <<labels[i][1]>> \o [j \in 1..Len(parts) |-> StrInt(parts[j])]]

\* the property hcs_position_labels of either class: what is raised and the
\* list returned
HcsPositionLabels(class, sp) ==
    IF sp = <<>>
    THEN [raised |-> "ValueError", value |-> <<>>]
    ELSE IF SiteParses(sp)
    THEN [raised |-> None, value |-> SiteTriples(sp)]
    ELSE IF class = "MicroManagerFOVMapping" /\ PosParses(sp)
    THEN [raised |-> None, value |-> PosTriples(sp)]
    ELSE IF class = "ReaderBase" /\ BasePosParses(sp)
    THEN [raised |-> None, value |-> BasePosTuples(sp)]
    ELSE [raised |-> "ValueError", value |-> <<>>]

\* the setter of stage_positions
SetStagePositions(value) ==
    /\ kind \in ReaderClasses
    /\ stage_positions' = value
    /\ last' = [op |-> "stage_positions", result |-> "ok",
                args |-> [value |-> value]]
    /\ calls' = calls + 1
    /\ UNCHANGED <<kind, channel_names, groups, arrays, attrs, images_meta,
                   hcsVars, nodeVars>>

\* a read of the property hcs_position_labels
HcsPositionLabelsCall ==
    /\ kind \in ReaderClasses
    /\ LET out == HcsPositionLabels(kind, stage_positions) IN
          last' = [op |-> "hcs_position_labels", result |-> Outcome(out.raised),
                   args |-> <<>>, value |-> out.value]
    /\ calls' = calls + 1
    /\ UNCHANGED <<kind, channel_names, groups, arrays, attrs, images_meta,
                   hcsVars, readerVars, nodeVars>>

\* calls made on a reader in one behaviour
MaxReaderCalls == 2
\* length of the stage position lists given to a reader
MaxPositions == 2

\* the labels: a well part, a separator or none, a field-of-view part
WellParts ==
    { <<>>, <<"A">>, <<"H", "1", "2">>, <<"A", "B", "1">>, <<"1">> }
Separators == { <<>>, SiteSep, PosSep }
FovParts ==
    { <<>>, <<"0">>, <<"0", "0", "_", "0", "1">>, <<"0">> \o SiteSep \o <<"1">> }
Labels == { w \o sep \o f : w \in WellParts, sep \in Separators, f \in FovParts }
StagePositionLists == UNION { [1..n -> Labels] : n \in 0..MaxPositions }

\* a reader as constructed: no stage positions
InitReader ==
    /\ kind \in ReaderClasses
    /\ channel_names = <<>>
    /\ groups = {}
    /\ arrays = <<>>
    /\ attrs = <<>>
    /\ images_meta = NoDoc
    /\ rows = <<>>
    /\ columns = <<>>
    /\ wells = <<>>
    /\ positions = <<>>
    /\ plate_meta = NoDoc
    /\ stage_positions = <<>>
    /\ metadata = NoDoc
    /\ iohub = <<>>
    /\ lifecycle = "Open"
    /\ scope = "none"
    /\ tiles = NoDoc
    /\ calls = 0
    /\ last = [op |-> "__init__", result |-> "ok", args |-> <<>>]

NextReader ==
    /\ calls < MaxReaderCalls
    /\ \/ \E value \in StagePositionLists : SetStagePositions(value)
       \/ HcsPositionLabelsCall

SpecReader == InitReader /\ [][NextReader]_vars

(***************************************************************************)
(* The NGFF Plate node: create_position and rename_well                    *)
(***************************************************************************)
PathSep == <<"/">>

\* a name that is safe as one segment of a path: letters and digits only
SafeChars == Letters \cup Digits
IsSafeName(s) == s # <<>> /\ \A i \in 1..Len(s) : s[i] \in SafeChars

\* the path "<row>/<col>" of a well, its check and its two names
WellPath(row, col) == row \o PathSep \o col
IsWellPath(path) ==
    LET parts == Split(path, PathSep) IN
    /\ Len(parts) = 2
    /\ IsSafeName(parts[1])
    /\ IsSafeName(parts[2])
RowOf(path) == Split(path, PathSep)[1]
ColumnOf(path) == Split(path, PathSep)[2]

\* the PlateMeta of an empty plate
EmptyPlate == [rows |-> <<>>, columns |-> <<>>, wells |-> <<>>]

\* the plate document as persisted on the root group
PlateDoc(meta) == (Root :> [EmptyAttrs EXCEPT !.plate = meta])

\* a name added to an index list on first use
WithName(names, name) ==
    IF name \in SeqToSet(names) THEN names ELSE Append(names, name)

\* create_position(row, col, fov): the row, column, well and position
\* groups are ensured and the well is listed
CreatePosition(meta, grps, row, col, fov) ==
    [metadata |-> [rows |-> WithName(meta.rows, row),
                   columns |-> WithName(meta.columns, col),
                   wells |-> WithName(meta.wells, WellPath(row, col))],
     groups |-> grps \cup {<<row>>, <<row, col>>, <<row, col, fov>>}]

\* a copy that leaves the groups of src in place
MoveGroup_Copy(grps, src, dst) ==
    grps \cup { dst \o SubSeq(g, Len(src) + 1, Len(g)) :
                  g \in { h \in grps : Len(h) >= Len(src)
                                        /\ SubSeq(h, 1, Len(src)) = src } }
         \cup {Dirname(dst)}

\* Group.move(src, dst): the group src and all below it are moved under dst,
\* whose parent is created
MoveGroup(grps, src, dst) ==
    { IF Len(g) >= Len(src) /\ SubSeq(g, 1, Len(src)) = src
      THEN dst \o SubSeq(g, Len(src) + 1, Len(g))
      ELSE g : g \in grps } \cup {Dirname(dst)}

\* a check that finds no destination taken
DestinationTaken_Never(meta, dst) == FALSE

\* the destination well is listed in the plate
DestinationTaken(meta, dst) == dst \in SeqToSet(meta.wells)

\* an index list that keeps the name of an emptied row or column
DropEmptied_Keep(names, name, used) == names

\* the index list of rows (columns) without a name no well uses any more
DropEmptied(names, name, used) ==
    IF name \in used THEN names ELSE SelectSeq(names, LAMBDA n : n # name)

\* rename_well(src, dst): what is raised, the PlateMeta and the groups after
RenameWell(meta, grps, src, dst) ==
    IF ~IsWellPath(src) \/ ~IsWellPath(dst)
    THEN [raised |-> "ValueError", metadata |-> meta, groups |-> grps]
    ELSE IF src \notin SeqToSet(meta.wells)
    THEN [raised |-> "ValueError", metadata |-> meta, groups |-> grps]
    ELSE IF DestinationTaken(meta, dst)
    THEN [raised |-> "ValueError", metadata |-> meta, groups |-> grps]
    ELSE
    LET renamed == [i \in 1..Len(meta.wells) |->
                       IF meta.wells[i] = src THEN dst ELSE meta.wells[i]]
        usedRows == { RowOf(renamed[i]) : i \in 1..Len(renamed) }
        usedCols == { ColumnOf(renamed[i]) : i \in 1..Len(renamed) }
        moved == MoveGroup(grps, Split(src, PathSep), Split(dst, PathSep))
    IN  [raised |-> None,
         metadata |->
            [rows |-> DropEmptied(WithName(meta.rows, RowOf(dst)),
                                  RowOf(src), usedRows),
             columns |-> DropEmptied(WithName(meta.columns, ColumnOf(dst)),
                                     ColumnOf(src), usedCols),
             wells |-> renamed],
         groups |-> IF RowOf(src) \in usedRows
                    THEN moved
                    ELSE moved \ {<<RowOf(src)>>}]

CreatePositionCall(row, col, fov) ==
    /\ kind = "Plate"
    /\ lifecycle = "Open"
    /\ LET out == CreatePosition(metadata, groups, row, col, fov) IN
          /\ metadata' = out.metadata
          /\ groups' = out.groups
          /\ attrs' = PlateDoc(out.metadata)
          /\ last' = [op |-> "create_position", result |-> "ok",
                      args |-> [row |-> row, col |-> col, fov |-> fov]]
    /\ calls' = calls + 1
    /\ UNCHANGED <<kind, channel_names, arrays, images_meta, hcsVars, readerVars,
                   nodeRest>>

RenameWellCall(src, dst) ==
    /\ kind = "Plate"
    /\ lifecycle = "Open"
    /\ LET out == RenameWell(metadata, groups, src, dst) IN
          /\ metadata' = out.metadata
          /\ groups' = out.groups
          /\ attrs' = PlateDoc(out.metadata)
          /\ last' = [op |-> "rename_well", result |-> Outcome(out.raised),
                      args |-> [src |-> src, dst |-> dst],
                      before |-> metadata]
    /\ calls' = calls + 1
    /\ UNCHANGED <<kind, channel_names, arrays, images_meta, hcsVars, readerVars,
                   nodeRest>>

\* calls made on a Plate node in one behaviour
MaxRenameCalls == 4

\* the names of the plate, and the paths given to rename_well: the paths of
\* its wells, a path with a leading space, one with a character that is not
\* safe, and one that has no column
NodeRows == { <<"B">>, <<"D">> }
NodeColumns == { <<"0", "3">>, <<"4">> }
NodeFovs == { <<"0">> }
RenamePaths ==
    { WellPath(r, c) : r \in NodeRows, c \in NodeColumns }
        \cup { <<" ">> \o WellPath(<<"B">>, <<"4">>),
               WellPath(<<"D">>, <<"?">>),
               <<"B">> }

\* a Plate node on a store created empty
InitRename ==
    /\ kind = "Plate"
    /\ channel_names = <<1>>
    /\ groups = {Root}
    /\ arrays = <<>>
    /\ metadata = EmptyPlate
    /\ iohub = <<>>
    /\ lifecycle = "Open"
    /\ scope = "none"
    /\ tiles = NoDoc
    /\ attrs = PlateDoc(metadata)
    /\ images_meta = NoDoc
    /\ rows = <<>>
    /\ columns = <<>>
    /\ wells = <<>>
    /\ positions = <<>>
    /\ plate_meta = NoDoc
    /\ stage_positions = <<>>
    /\ calls = 0
    /\ last = [op |-> "__init__", result |-> "ok", args |-> <<>>]

NextRename ==
    /\ calls < MaxRenameCalls
    /\ \/ \E row \in NodeRows, col \in NodeColumns, fov \in NodeFovs :
             CreatePositionCall(row, col, fov)
       \/ \E src \in RenamePaths, dst \in RenamePaths : RenameWellCall(src, dst)

SpecRename == InitRename /\ [][NextRename]_vars

(***************************************************************************)
(* The NGFF Position node: create_zeros, set_transform and the effective   *)
(* scale and translation of an image                                       *)
(***************************************************************************)
\* the axes (T, C, Z, Y, X) of a multiscale
NumAxes == 5
Axes == 1..NumAxes

\* coordinate transformations: identity, scale and translation
Identity == [type |-> "identity", value |-> <<>>]
Scale(v) == [type |-> "scale", value |-> v]
Translation(v) == [type |-> "translation", value |-> v]

\* the multiscale of a Position created empty: the FOV-level pipeline is
\* the identity and there is no dataset
EmptyPosition == [coordinate_transformations |-> <<Identity>>, datasets |-> <<>>]

\* the document of the Position as persisted on its group
PositionDoc(meta) == (Root :> [EmptyAttrs EXCEPT !.images = meta])

DatasetNames(meta) == { meta.datasets[i].path : i \in 1..Len(meta.datasets) }
DatasetOf(meta, image) ==
    meta.datasets[CHOOSE i \in 1..Len(meta.datasets) : meta.datasets[i].path = image]

\* create_zeros(name, shape, dtype): the Dataset entry of the new array,
\* with the identity as its pipeline, appended or put in place of the entry
\* of that name
CreateZeros(meta, name) ==
    LET entry == [path |-> name, coordinate_transformations |-> <<Identity>>] IN
    IF name \in DatasetNames(meta)
    THEN [meta EXCEPT !.datasets =
            [i \in 1..Len(meta.datasets) |->
                IF meta.datasets[i].path = name THEN entry ELSE meta.datasets[i]]]
    ELSE [meta EXCEPT !.datasets = Append(@, entry)]

\* set_transform(image, transform): "*" sets the FOV-level pipeline, a
\* dataset path the pipeline of that dataset; KeyError if there is none
SetTransform(meta, image, transform) ==
    IF image = "*"
    THEN [raised |-> None,
          metadata |-> [meta EXCEPT !.coordinate_transformations = transform]]
    ELSE IF image \notin DatasetNames(meta)
    THEN [raised |-> "KeyError", metadata |-> meta]
    ELSE [raised |-> None,
          metadata |-> [meta EXCEPT !.datasets =
            [i \in 1..Len(meta.datasets) |->
                IF meta.datasets[i].path = image
                THEN [meta.datasets[i] EXCEPT !.coordinate_transformations = transform]
                ELSE meta.datasets[i]]]]

\* the pipeline of the dataset alone
AllTransforms_DatasetOnly(meta, image) ==
    DatasetOf(meta, image).coordinate_transformations

\* the FOV-level pipeline followed by the pipeline of the dataset
AllTransforms(meta, image) ==
    meta.coordinate_transformations
        \o DatasetOf(meta, image).coordinate_transformations

\* the scale factors of the transformations of a list multiplied per axis,
\* starting from 1
RECURSIVE FullScale(_)
FullScale(transforms) ==
    IF transforms = <<>> THEN [a \in Axes |-> 1]
    ELSE LET rest == FullScale(Tail(transforms)) IN
         IF Head(transforms).type = "scale"
         THEN [a \in Axes |-> Head(transforms).value[a] * rest[a]]
         ELSE rest

\* a sum in which every scale multiplies the translations that follow it
RECURSIVE FullTranslation_Scaled(_)
FullTranslation_Scaled(transforms) ==
    IF transforms = <<>> THEN [a \in Axes |-> 0]
    ELSE LET rest == FullTranslation_Scaled(Tail(transforms)) IN
         IF Head(transforms).type = "translation"
         THEN [a \in Axes |-> Head(transforms).value[a] + rest[a]]
         ELSE IF Head(transforms).type = "scale"
         THEN [a \in Axes |-> Head(transforms).value[a] * rest[a]]
         ELSE rest

\* the translations of the transformations of a list added per axis,
\* starting from 0
RECURSIVE FullTranslation(_)
FullTranslation(transforms) ==
    IF transforms = <<>> THEN [a \in Axes |-> 0]
    ELSE LET rest == FullTranslation(Tail(transforms)) IN
         IF Head(transforms).type = "translation"
         THEN [a \in Axes |-> Head(transforms).value[a] + rest[a]]
         ELSE rest

\* get_effective_scale(image) and get_effective_translation(image)
GetEffectiveScale(meta, image) ==
    IF image \notin DatasetNames(meta)
    THEN [raised |-> "KeyError", value |-> <<>>]
    ELSE [raised |-> None, value |-> FullScale(AllTransforms(meta, image))]

GetEffectiveTranslation(meta, image) ==
    IF image \notin DatasetNames(meta)
    THEN [raised |-> "KeyError", value |-> <<>>]
    ELSE [raised |-> None, value |-> FullTranslation(AllTransforms(meta, image))]

\* _pad_shape(shape, target): extents of 1 put in front of a shape
RECURSIVE PadShape(_, _)
PadShape(shape, target) ==
    IF Len(shape) >= target THEN shape ELSE PadShape(<<1>> \o shape, target)

\* a check of the number of dimensions alone
CheckShape_RankOnly(names, shape) ==
    IF Len(shape) < 3 THEN "ValueError" ELSE None

\* the check of a shape made before an array is created: at least 3
\* dimensions, and as many channels as the node has channel names
CheckShape(names, shape) ==
    IF Len(shape) < 3 \/ PadShape(shape, NumAxes)[2] # Len(names)
    THEN "ValueError"
    ELSE None

\* an array of a shape with every slab holding one block (0: zeros)
Filled(shape, block) ==
    LET padded == PadShape(shape, NumAxes) IN
    [shape |-> padded,
     data  |-> [k \in (0..(padded[1] - 1)) \X (0..(padded[2] - 1)) |-> block]]

\* create_image(name, data) and create_zeros(name, shape, dtype): the shape
\* is checked, the array is created and the multiscale gets its entry
CreateArrayCall(op, name, shape, block) ==
    /\ kind = "Position"
    /\ lifecycle = "Open"
    /\ LET raised == CheckShape(channel_names, shape) IN
          /\ IF raised # None
             THEN UNCHANGED <<metadata, arrays, attrs>>
             ELSE /\ metadata' = CreateZeros(metadata, name)
                  /\ arrays' = (<<Root, name>> :> Filled(shape, block)) @@ arrays
                  /\ attrs' = PositionDoc(metadata')
          /\ last' = [op |-> op, result |-> Outcome(raised),
                      args |-> [name |-> name, shape |-> shape]]
    /\ calls' = calls + 1
    /\ UNCHANGED <<kind, channel_names, groups, images_meta, hcsVars, readerVars,
                   nodeRest>>

CreateImageCall(name, shape) == CreateArrayCall("create_image", name, shape, calls + 1)

CreateZerosCall(name, shape) == CreateArrayCall("create_zeros", name, shape, 0)

SetTransformCall(image, transform) ==
    /\ kind = "Position"
    /\ lifecycle = "Open"
    /\ LET out == SetTransform(metadata, image, transform) IN
          /\ metadata' = out.metadata
          /\ attrs' = PositionDoc(out.metadata)
          /\ last' = [op |-> "set_transform", result |-> Outcome(out.raised),
                      args |-> [image |-> image, transform |-> transform]]
    /\ calls' = calls + 1
    /\ UNCHANGED <<kind, channel_names, groups, arrays, images_meta, hcsVars,
                   readerVars, nodeRest>>

GetEffectiveScaleCall(image) ==
    /\ kind = "Position"
    /\ LET out == GetEffectiveScale(metadata, image) IN
          last' = [op |-> "get_effective_scale", result |-> Outcome(out.raised),
                   args |-> [image |-> image], value |-> out.value]
    /\ calls' = calls + 1
    /\ UNCHANGED <<kind, channel_names, groups, arrays, attrs, images_meta,
                   hcsVars, readerVars, nodeVars>>

GetEffectiveTranslationCall(image) ==
    /\ kind = "Position"
    /\ LET out == GetEffectiveTranslation(metadata, image) IN
          last' = [op |-> "get_effective_translation",
                   result |-> Outcome(out.raised),
                   args |-> [image |-> image], value |-> out.value]
    /\ calls' = calls + 1
    /\ UNCHANGED <<kind, channel_names, groups, arrays, attrs, images_meta,
                   hcsVars, readerVars, nodeVars>>

\* calls made on a Position node in one behaviour
MaxTransformCalls == 4

\* the images created and named, their shape, and the pipelines set
ImageNames == {"0"}
UnitShape == <<1, 1, 1, 2, 2>>
ImageArgs == {"0", "1"}
Scales == { <<2, 2, 2, 2, 2>>, <<1, 2, 3, 4, 5>> }
Translations == { <<1, 1, 1, 1, 1>>, <<1, 2, 3, 4, 5>> }
Pipelines ==
    { <<>>, <<Identity>> }
        \cup { <<Scale(v)>> : v \in Scales }
        \cup { <<Translation(v)>> : v \in Translations }
        \cup { <<Scale(v), Translation(w)>> : v \in Scales, w \in Translations }

\* a Position node on a store created empty
InitTransform ==
    /\ kind = "Position"
    /\ channel_names = <<1>>
    /\ groups = {Root}
    /\ arrays = <<>>
    /\ metadata = EmptyPosition
    /\ iohub = <<>>
    /\ lifecycle = "Open"
    /\ scope = "none"
    /\ tiles = NoDoc
    /\ attrs = PositionDoc(metadata)
    /\ images_meta = NoDoc
    /\ rows = <<>>
    /\ columns = <<>>
    /\ wells = <<>>
    /\ positions = <<>>
    /\ plate_meta = NoDoc
    /\ stage_positions = <<>>
    /\ calls = 0
    /\ last = [op |-> "__init__", result |-> "ok", args |-> <<>>]

NextTransform ==
    /\ calls < MaxTransformCalls
    /\ \/ \E name \in ImageNames : CreateZerosCall(name, UnitShape)
       \/ \E image \in ImageArgs \cup {"*"}, transform \in Pipelines :
             SetTransformCall(image, transform)
       \/ \E image \in ImageArgs : GetEffectiveScaleCall(image)
       \/ \E image \in ImageArgs : GetEffectiveTranslationCall(image)

SpecTransform == InitTransform /\ [][NextTransform]_vars

(***************************************************************************)
(* Position.set_scale                                                      *)
(***************************************************************************)
\* the names of the axes of a Position
AxisNames == <<"t", "c", "z", "y", "x">>

\* str.lower() on one character
UpperCase == <<"A", "B", "C", "D", "E", "F", "G", "H", "I", "J", "K", "L", "M", "N", "O", "P", "Q", "R", "S", "T", "U", "V", "W", "X", "Y", "Z">>
LowerCase == <<"a", "b", "c", "d", "e", "f", "g", "h", "i", "j", "k", "l", "m", "n", "o", "p", "q", "r", "s", "t", "u", "v", "w", "x", "y", "z">>
Lower(ch) ==
    IF \E i \in 1..Len(UpperCase) : UpperCase[i] = ch
    THEN LowerCase[CHOOSE i \in 1..Len(UpperCase) : UpperCase[i] = ch]
    ELSE ch

\* get_axis_index(axis_name): the position of the lowered name among the
\* axis names; NoIndex stands for the ValueError raised when there is none
GetAxisIndex(axis_name) ==
    IF \E a \in Axes : AxisNames[a] = Lower(axis_name)
    THEN CHOOSE a \in Axes : AxisNames[a] = Lower(axis_name)
    ELSE NoIndex

\* the position in a pipeline of its scale, the identity standing for a
\* scale of ones; 0 if the pipeline has neither
ScaleAt(transforms) ==
    LET at == { i \in 1..Len(transforms) :
                    transforms[i].type \in {"scale", "identity"} } IN
    IF at = {} THEN 0 ELSE CHOOSE i \in at : \A j \in at : i <= j

\* the scale of a pipeline
ScaleOf(transforms) ==
    IF ScaleAt(transforms) = 0 \/ transforms[ScaleAt(transforms)].type = "identity"
    THEN [a \in Axes |-> 1]
    ELSE transforms[ScaleAt(transforms)].value

\* the key of zattrs["iohub"] under which the previous scale is recorded
PriorScaleKey(axis_name) == <<"prior_", axis_name, "_scale">>

\* a scale with one axis set to new_scale and the others set to 1
Rescaled_OthersReset(old, axis, new_scale) ==
    [a \in Axes |-> IF a = axis THEN new_scale ELSE 1]

\* a scale with one axis set to new_scale
Rescaled(old, axis, new_scale) ==
    [old EXCEPT ![axis] = new_scale]

\* set_scale(image, axis_name, new_scale): ValueError for a scale that is
\* not positive or an axis that is not there, KeyError for a dataset that
\* is not there; the previous scale of the axis is recorded, and the scale
\* of the dataset's own pipeline is rewritten for that axis
SetScale(meta, audit, image, axis_name, new_scale) ==
    IF new_scale <= 0 \/ GetAxisIndex(axis_name) = NoIndex
    THEN [raised |-> "ValueError", metadata |-> meta, iohub |-> audit]
    ELSE IF image \notin DatasetNames(meta)
    THEN [raised |-> "KeyError", metadata |-> meta, iohub |-> audit]
    ELSE LET transforms == DatasetOf(meta, image).coordinate_transformations
             axis == GetAxisIndex(axis_name)
             old == ScaleOf(transforms)
             new == Scale(Rescaled(old, axis, new_scale))
             at == ScaleAt(transforms)
             rewritten == IF at = 0 THEN <<new>> \o transforms
                          ELSE [transforms EXCEPT ![at] = new]
         IN [raised |-> None,
             metadata |-> SetTransform(meta, image, rewritten).metadata,
             iohub |-> DictPut(audit, [name |-> PriorScaleKey(axis_name),
                                       value |-> old[axis]])]

SetScaleCall(image, axis_name, new_scale) ==
    /\ kind = "Position"
    /\ lifecycle = "Open"
    /\ LET out == SetScale(metadata, iohub, image, axis_name, new_scale) IN
          /\ metadata' = out.metadata
          /\ iohub' = out.iohub
          /\ attrs' = PositionDoc(out.metadata)
          /\ last' = [op |-> "set_scale", result |-> Outcome(out.raised),
                      args |-> [image |-> image, axis_name |-> axis_name,
                                new_scale |-> new_scale]]
    /\ calls' = calls + 1
    /\ UNCHANGED <<kind, channel_names, groups, arrays, images_meta, hcsVars,
                   readerVars, lifecycle, scope, tiles>>

\* calls made on a Position node whose scale is set
MaxScaleCalls == 4

\* the axes named, the scales set and the pipelines of the dataset
AxisNameArgs == {"z", "Z", "x", "q"}
NewScales == {-1, 0, 3, 10}
ScalePipelines ==
    { <<Identity>>,
      <<Translation(<<1, 2, 3, 4, 5>>), Scale(<<5, 4, 3, 2, 1>>)>>,
      <<Translation(<<1, 1, 1, 1, 1>>)>>,
      <<Scale(<<2, 2, 2, 2, 2>>)>> }

NextScale ==
    /\ calls < MaxScaleCalls
    /\ \/ \E name \in ImageNames : CreateZerosCall(name, UnitShape)
       \/ \E image \in ImageNames \cup {"*"}, transform \in ScalePipelines :
             SetTransformCall(image, transform)
       \/ \E image \in ImageArgs, axis_name \in AxisNameArgs, new_scale \in NewScales :
             SetScaleCall(image, axis_name, new_scale)

SpecScale == InitTransform /\ [][NextScale]_vars

(***************************************************************************)
(* Position.append_channel                                                 *)
(***************************************************************************)
\* an array of the grown shape that reads zeros everywhere
GrownChannels_Cleared(array, C) ==
    Filled(<<array.shape[1], C>> \o ZyxOf(array.shape), 0)

\* an array resized along its channel axis
GrownChannels(array, C) ==
    Resize(array, array.shape[1], C, ZyxOf(array.shape))

\* append_channel(chan_name, resize_arrays): ValueError if the arrays are
\* not resized and one of them has not the new number of channels;
\* otherwise the name is appended and, if asked for, every array is resized
AppendChannel(names, arrs, chan_name, resize_arrays) ==
    LET C == Len(names) + 1 IN
    IF ~resize_arrays /\ \E key \in DOMAIN arrs : arrs[key].shape[2] # C
    THEN [raised |-> "ValueError", channel_names |-> names, arrays |-> arrs]
    ELSE [raised |-> None,
          channel_names |-> Append(names, chan_name),
          arrays |-> IF resize_arrays
                     THEN [key \in DOMAIN arrs |-> GrownChannels(arrs[key], C)]
                     ELSE arrs]

AppendChannelCall(chan_name, resize_arrays) ==
    /\ kind = "Position"
    /\ lifecycle = "Open"
    /\ LET out == AppendChannel(channel_names, arrays, chan_name, resize_arrays) IN
          /\ channel_names' = out.channel_names
          /\ arrays' = out.arrays
          /\ last' = [op |-> "append_channel", result |-> Outcome(out.raised),
                      args |-> [chan_name |-> chan_name,
                                resize_arrays |-> resize_arrays]]
    /\ attrs' = PositionDoc(metadata)
    /\ calls' = calls + 1
    /\ UNCHANGED <<kind, groups, images_meta, hcsVars, readerVars, nodeVars>>

\* calls made on a Position node whose arrays are created and whose
\* channels are appended
MaxChannelCalls == 3

\* the channel names the node is opened with, the names of the arrays and
\* the shapes of the data: 2D, 3D, and 5D with 1, 2 and 3 channels
InitialChannelNames == { <<1>>, <<1, 2>> }
ArrayNames == {"0", "1"}
NodeShapes == { <<2, 2>>, <<1, 2, 2>>, <<2, 1, 1, 2, 2>>, <<1, 2, 1, 2, 2>>, <<1, 3, 1, 2, 2>> }

\* a Position node on a store created empty, with one or two channel names
InitChannels ==
    /\ kind = "Position"
    /\ channel_names \in InitialChannelNames
    /\ groups = {Root}
    /\ arrays = <<>>
    /\ metadata = EmptyPosition
    /\ iohub = <<>>
    /\ lifecycle = "Open"
    /\ scope = "none"
    /\ tiles = NoDoc
    /\ attrs = PositionDoc(metadata)
    /\ images_meta = NoDoc
    /\ rows = <<>>
    /\ columns = <<>>
    /\ wells = <<>>
    /\ positions = <<>>
    /\ plate_meta = NoDoc
    /\ stage_positions = <<>>
    /\ calls = 0
    /\ last = [op |-> "__init__", result |-> "ok", args |-> <<>>]

\* the name appended is one the node has not yet
NextChannels ==
    /\ calls < MaxChannelCalls
    /\ \/ \E name \in ArrayNames, shape \in NodeShapes : CreateImageCall(name, shape)
       \/ \E name \in ArrayNames, shape \in NodeShapes : CreateZerosCall(name, shape)
       \/ \E resize_arrays \in BOOLEAN :
             AppendChannelCall(Len(channel_names) + 1, resize_arrays)

SpecChannels == InitChannels /\ [][NextChannels]_vars

(***************************************************************************)
(* TiledPosition.make_tiles and TiledImageArray.get_tile                   *)
(***************************************************************************)
\* Python values handed as tile coordinates: integers and floats
PyInt(n) == [type |-> "int", value |-> n]
PyFloat(n) == [type |-> "float", value |-> n]

\* make_tiles(name, grid_shape, tile_shape, dtype, chunk_dims): ValueError
\* unless chunk_dims is 1 or 2; the array has the extents of a tile but for
\* Y and X, which are those of the grid of tiles
MakeTiles(grid_shape, tile_shape, chunk_dims) ==
    LET padded == PadShape(tile_shape, NumAxes) IN
    IF chunk_dims \notin {1, 2}
    THEN [raised |-> "ValueError", tiles |-> NoDoc]
    ELSE [raised |-> None,
          tiles |-> [rows |-> grid_shape[1], columns |-> grid_shape[2],
                     tile_shape |-> padded,
                     shape |-> [padded EXCEPT ![4] = grid_shape[1] * @,
                                              ![5] = grid_shape[2] * @]]]

\* a check of the upper ends alone
CheckRC_UpperOnly(t, row, column) ==
    IF row.type # "int" \/ column.type # "int" THEN "TypeError"
    ELSE IF row.value >= t.rows \/ column.value >= t.columns THEN "IndexError"
    ELSE None

\* the check of a tile coordinate: TypeError unless row and column are
\* integers, IndexError unless they are on the grid
CheckRC(t, row, column) ==
    IF row.type # "int" \/ column.type # "int" THEN "TypeError"
    ELSE IF row.value < 0 \/ row.value >= t.rows
            \/ column.value < 0 \/ column.value >= t.columns
    THEN "IndexError"
    ELSE None

\* get_tile(row, column): the Y and X slices of the tile
GetTile(t, row, column) ==
    LET raised == CheckRC(t, row, column)
        h == t.tile_shape[4]
        w == t.tile_shape[5]
    IN IF raised # None THEN [raised |-> raised, value |-> <<>>]
       ELSE [raised |-> None,
             value |-> << <<row.value * h, (row.value + 1) * h>>,
                          <<column.value * w, (column.value + 1) * w>> >>]

MakeTilesCall(name, grid_shape, tile_shape, chunk_dims) ==
    /\ kind = "TiledPosition"
    /\ lifecycle = "Open"
    /\ LET out == MakeTiles(grid_shape, tile_shape, chunk_dims) IN
          /\ IF out.raised # None
             THEN UNCHANGED <<tiles, metadata, arrays, attrs>>
             ELSE /\ tiles' = out.tiles
                  /\ metadata' = CreateZeros(metadata, name)
                  /\ arrays' = (<<Root, name>> :> Filled(out.tiles.shape, 0)) @@ arrays
                  /\ attrs' = PositionDoc(metadata')
          /\ last' = [op |-> "make_tiles", result |-> Outcome(out.raised),
                      args |-> [name |-> name, grid_shape |-> grid_shape,
                                tile_shape |-> tile_shape, chunk_dims |-> chunk_dims]]
    /\ calls' = calls + 1
    /\ UNCHANGED <<kind, channel_names, groups, images_meta, hcsVars, readerVars,
                   iohub, lifecycle, scope>>

\* called on the array that make_tiles returned
GetTileCall(row, column) ==
    /\ kind = "TiledPosition"
    /\ tiles # NoDoc
    /\ LET out == GetTile(tiles, row, column) IN
          last' = [op |-> "get_tile", result |-> Outcome(out.raised),
                   args |-> [row |-> row, column |-> column], value |-> out.value]
    /\ calls' = calls + 1
    /\ UNCHANGED <<kind, channel_names, groups, arrays, attrs, images_meta,
                   hcsVars, readerVars, nodeVars>>

\* calls made on a TiledPosition node and on its array in one behaviour
MaxTileCalls == 3

\* the grids and tiles made and the coordinates asked for
GridShapes == { <<1, 1>>, <<2, 2>>, <<1, 3>>, <<3, 2>> }
TileShapes == { <<1, 1>>, <<2, 3>> }
ChunkDims == {1, 2, 3}
Coordinates == { PyInt(n) : n \in -1..3 } \cup { PyFloat(1) }

\* a TiledPosition node on a store created empty
InitTiles ==
    /\ kind = "TiledPosition"
    /\ channel_names = <<1>>
    /\ groups = {Root}
    /\ arrays = <<>>
    /\ metadata = EmptyPosition
    /\ iohub = <<>>
    /\ lifecycle = "Open"
    /\ scope = "none"
    /\ tiles = NoDoc
    /\ attrs = PositionDoc(metadata)
    /\ images_meta = NoDoc
    /\ rows = <<>>
    /\ columns = <<>>
    /\ wells = <<>>
    /\ positions = <<>>
    /\ plate_meta = NoDoc
    /\ stage_positions = <<>>
    /\ calls = 0
    /\ last = [op |-> "__init__", result |-> "ok", args |-> <<>>]

NextTiles ==
    /\ calls < MaxTileCalls
    /\ \/ \E name \in ImageNames, grid_shape \in GridShapes, tile_shape \in TileShapes, chunk_dims \in ChunkDims :
             MakeTilesCall(name, grid_shape, tile_shape, chunk_dims)
       \/ \E row \in Coordinates, column \in Coordinates : GetTileCall(row, column)

SpecTiles == InitTiles /\ [][NextTiles]_vars

(***************************************************************************)
(* The lifecycle of a node: open_ome_zarr, close and the with block        *)
(***************************************************************************)
\* a close that leaves the node as it is
Close_StaysOpen(state) == state

\* close(): the store handle is released and the node is Closed
Close(state) == "Closed"

\* the mutations of a node of a kind
Mutations(k) ==
    IF k = "Plate"
    THEN {"create_position", "rename_well"}
    ELSE {"create_image", "create_zeros", "append_channel", "set_transform", "set_scale"}

\* open_ome_zarr(...), as a plain call or as the head of a with block: the
\* node is created with its metadata and is Open
OpenCall(scoped) ==
    /\ lifecycle = "Unopened"
    /\ lifecycle' = "Open"
    /\ scope' = IF scoped THEN "inside" ELSE "none"
    /\ metadata' = IF kind = "Plate" THEN EmptyPlate ELSE EmptyPosition
    /\ attrs' = IF kind = "Plate" THEN PlateDoc(metadata') ELSE PositionDoc(metadata')
    /\ last' = [op |-> "open_ome_zarr", result |-> "ok", args |-> [scoped |-> scoped]]
    /\ calls' = calls + 1
    /\ UNCHANGED <<kind, channel_names, groups, arrays, images_meta, hcsVars,
                   readerVars, iohub, tiles>>

\* close() on a node that was opened
CloseCall ==
    /\ lifecycle # "Unopened"
    /\ lifecycle' = Close(lifecycle)
    /\ last' = [op |-> "close", result |-> "ok", args |-> <<>>]
    /\ calls' = calls + 1
    /\ UNCHANGED <<kind, channel_names, groups, arrays, attrs, images_meta,
                   hcsVars, readerVars, metadata, iohub, scope, tiles>>

\* the with block is left, at its end or by an exception raised in it:
\* __exit__ closes the node
ExitBlock(how) ==
    /\ scope = "inside"
    /\ scope' = how
    /\ lifecycle' = Close(lifecycle)
    /\ last' = [op |-> "__exit__", result |-> "ok", args |-> [how |-> how]]
    /\ calls' = calls + 1
    /\ UNCHANGED <<kind, channel_names, groups, arrays, attrs, images_meta,
                   hcsVars, readerVars, metadata, iohub, tiles>>

\* a mutation called on a node that is Closed: it raises an error, which
\* the documentation does not name, and changes nothing
RefusedCall(op) ==
    /\ lifecycle = "Closed"
    /\ op \in Mutations(kind)
    /\ last' = [op |-> op, result |-> "Error", args |-> <<>>]
    /\ calls' = calls + 1
    /\ UNCHANGED <<kind, channel_names, groups, arrays, attrs, images_meta,
                   hcsVars, readerVars, nodeVars>>

\* calls made on a node from before it is opened
MaxLifecycleCalls == 4

\* the pipelines set and the wells renamed
LifecyclePipelines == { <<Scale(<<2, 2, 2, 2, 2>>)>>, <<Translation(<<1, 1, 1, 1, 1>>)>> }
LifecycleWells == { WellPath(<<"B">>, <<"4">>), WellPath(<<"D">>, <<"4">>) }

\* a store on which no node is opened yet
InitLifecycle ==
    /\ kind \in {"Position", "Plate"}
    /\ channel_names = <<1>>
    /\ groups = {Root}
    /\ arrays = <<>>
    /\ metadata = NoDoc
    /\ iohub = <<>>
    /\ lifecycle = "Unopened"
    /\ scope = "none"
    /\ tiles = NoDoc
    /\ attrs = (Root :> EmptyAttrs)
    /\ images_meta = NoDoc
    /\ rows = <<>>
    /\ columns = <<>>
    /\ wells = <<>>
    /\ positions = <<>>
    /\ plate_meta = NoDoc
    /\ stage_positions = <<>>
    /\ calls = 0
    /\ last = [op |-> "__init__", result |-> "ok", args |-> <<>>]

NextLifecycle ==
    /\ calls < MaxLifecycleCalls
    /\ \/ \E scoped \in BOOLEAN : OpenCall(scoped)
       \/ CloseCall
       \/ \E how \in {"exited", "raised"} : ExitBlock(how)
       \/ \E op \in Mutations(kind) : RefusedCall(op)
       \/ \E name \in ImageNames : CreateImageCall(name, UnitShape)
       \/ \E name \in ImageNames : CreateZerosCall(name, UnitShape)
       \/ \E resize_arrays \in BOOLEAN :
             AppendChannelCall(Len(channel_names) + 1, resize_arrays)
       \/ \E image \in ImageNames \cup {"*"}, transform \in LifecyclePipelines :
             SetTransformCall(image, transform)
       \/ \E image \in ImageNames, new_scale \in {-1, 3} : SetScaleCall(image, "z", new_scale)
       \/ \E row \in NodeRows, col \in NodeColumns, fov \in NodeFovs :
             CreatePositionCall(row, col, fov)
       \/ \E src \in LifecycleWells, dst \in LifecycleWells : RenameWellCall(src, dst)

SpecLifecycle == InitLifecycle /\ [][NextLifecycle]_vars

(***************************************************************************)
(* Properties                                                              *)
(***************************************************************************)
\* the call that led to the state s' of a step, read in s'
LastKey == <<last.args.group, NameOf(last.args.name)>>
LastWrote == last.op = "write_zstack" /\ last.result = "ok"
Zyx(array) == SubSeq(array.shape, 3, 5)

\* C1: a successful write_zstack at (t, c) leaves the T extent of the array
\* at max(previous T, t + 1) and its C extent at max(previous C, c + 1), a
\* new array counting as (1, 1); the Z,Y,X extents are those it had (those of
\* the block for a new array), and no extent of any other array changes
C1_ExtentsGrowToMax ==
    [][ LastWrote' =>
          LET key == LastKey'
              t == last'.args.time_index
              c == last'.args.channel_index
              new == arrays'[key].shape
              old == IF key \in DOMAIN arrays
                     THEN arrays[key].shape
                     ELSE <<1, 1>> \o ZyxOf(last'.args.shape)
          IN  /\ new[1] = Max(old[1], t + 1)
              /\ new[2] = Max(old[2], c + 1)
              /\ new[1] >= old[1] /\ new[2] >= old[2]
              /\ SubSeq(new, 3, 5) = SubSeq(old, 3, 5)
              /\ \A k \in DOMAIN arrays \ {key} : arrays'[k].shape = arrays[k].shape
      ]_vars

\* an array grown along T by one write and along C by a later write at time
\* index 0: the T extent stays above the index of the later write
C1_Witness ==
    /\ LastWrote
    /\ last.args.time_index = 0 /\ last.args.channel_index = 1
    /\ arrays[LastKey].shape[1] = 2 /\ arrays[LastKey].shape[2] = 2

C3_NegativeIndexRaisesFirst ==
    [][ ( /\ last'.op = "write_zstack"
          /\ (last'.args.time_index < 0 \/ last'.args.channel_index < 0) )
        => /\ last'.result = "ValueError"
           /\ arrays' = arrays
           /\ attrs' = attrs
           /\ groups' = groups
      ]_vars

\* a write with a negative channel index refused on a position that holds an
\* array and whose plate has its documents
C3_Witness ==
    /\ last.op = "write_zstack"
    /\ last.args.channel_index < 0 /\ last.args.time_index >= 0
    /\ last.result = "ValueError"
    /\ LastKey \in DOMAIN arrays
    /\ attrs[Root].plate # NoDoc

\* C4: a write_zstack whose arguments pass the argument checks, onto a name
\* that holds an array whose trailing three extents differ from the (Z,Y,X)
\* shape of the block, fails with FileExistsError and leaves every array and
\* every attribute document as it was
C4_IncompatibleShapeRaises ==
    [][ ( /\ last'.op = "write_zstack"
          /\ Len(last'.args.shape) >= 3
          /\ last'.args.time_index >= 0 /\ last'.args.channel_index >= 0
          /\ LastKey' \in DOMAIN arrays
          /\ Zyx(arrays[LastKey']) # ZyxOf(last'.args.shape) )
        => /\ last'.result = "FileExistsError"
           /\ arrays' = arrays
           /\ attrs' = attrs
      ]_vars

\* a write refused for its shape on an array that holds a block and is
\* listed in the multiscales document
C4_Witness ==
    /\ last.op = "write_zstack"
    /\ last.result = "FileExistsError"
    /\ LastKey \in DOMAIN arrays
    /\ Zyx(arrays[LastKey]) # ZyxOf(last.args.shape)
    /\ \E k \in DOMAIN arrays[LastKey].data : arrays[LastKey].data[k] # 0
    /\ attrs[Root].images # NoDoc

\* C5: require_position called again for a position that is registered
\* leaves the row, column, well and position registries as they were
C5_RequirePositionIdempotent ==
    [][ ( /\ last'.op = "require_position"
          /\ last'.result = "ok"
          /\ <<last'.args.row, last'.args.column, last'.args.fov>>
                \in DictKeys(positions) )
        => /\ rows' = rows
           /\ columns' = columns
           /\ wells' = wells
           /\ positions' = positions
      ]_vars

\* C6: every row name and every column name keeps the id it was given on
\* first use, and no two row names and no two column names share an id
UniqueIds(registry) ==
    \A i, j \in 1..Len(registry) : registry[i].id = registry[j].id => i = j

C6_IdsStableAndUnique ==
    [][ /\ \A i \in 1..Len(rows) : rows'[i] = rows[i]
        /\ \A i \in 1..Len(columns) : columns'[i] = columns[i]
        /\ UniqueIds(rows')
        /\ UniqueIds(columns')
      ]_vars

\* C7: every Dataset path of the multiscales document stored on a group
\* names an array directly under that group
C7_DatasetPathsAreArrays ==
    \A g \in groups :
        attrs[g].images # NoDoc =>
            \A path \in DatasetPaths(attrs[g].images.multiscales) :
                <<g, path>> \in DOMAIN arrays

\* C8: after a successful write_zstack the channel extent of the array
\* written equals the length of channel_names
C8_ChannelExtentIsNumberOfChannels ==
    LastWrote => arrays[LastKey].shape[2] = Len(channel_names)

\* C9: when require_row, require_well or require_position has returned, the
\* plate document on the root lists every registered row, column and well and
\* the well document of every registered well lists its positions
C9_RequirePersistsMetadata ==
    ( /\ last.op \in {"require_row", "require_well", "require_position"}
      /\ last.result = "ok" )
    => /\ attrs[Root].plate = PlateMeta(rows, columns, wells, positions)
       /\ \A i \in 1..Len(wells) :
             attrs[wells[i].name].well = WellGroupMeta(wells, wells[i].name)

\* C10: a write_zstack with automatic metadata, for an array name and a
\* transform that the multiscales document of the node already lists, leaves
\* that document as it was, with one Dataset entry for the name
C10_RepeatedWriteKeepsDocument ==
    [][ ( /\ LastWrote'
          /\ last'.args.auto_meta
          /\ attrs[last'.args.group].images # NoDoc
          /\ \E i \in 1..Len(attrs[last'.args.group].images.multiscales.datasets) :
                attrs[last'.args.group].images.multiscales.datasets[i]
                    = DatasetMeta(NameOf(last'.args.name), last'.args.transform) )
        => /\ attrs'[last'.args.group].images = attrs[last'.args.group].images
           /\ Cardinality({ i \in 1..Len(attrs'[last'.args.group].images.multiscales.datasets) :
                 attrs'[last'.args.group].images.multiscales.datasets[i].path
                    = NameOf(last'.args.name) }) = 1
      ]_vars

\* the channel display entries of the omero record stored on a group
OmeroChannels(g) == attrs[g].images.omero.channels

\* C11: the omero record stored by the writer holds one channel display entry
\* per name of channel_names, in the order of channel_names, whatever the
\* length of channel_names
C11_OneChannelEntryPerName ==
    \A g \in groups :
        attrs[g].images # NoDoc =>
            /\ Len(OmeroChannels(g)) = Len(channel_names)
            /\ \A i \in 1..Len(OmeroChannels(g)) :
                  OmeroChannels(g)[i].label = channel_names[i]

\* C12: in the omero record stored by the writer the entry of channel 0 is
\* built with first_chan set and the entry of every later channel with
\* first_chan unset
C12_OnlyChannelZeroIsPrimary ==
    \A g \in groups :
        attrs[g].images # NoDoc =>
            \A i \in 1..Len(OmeroChannels(g)) :
                OmeroChannels(g)[i].first_chan = (i = 1)

\* the positions registered by require_position under a well
PositionsOf(psn, well_name) == { p \in DictKeys(psn) : Dirname(p) = well_name }

\* C13: after every call the image list of each well holds one entry
\* {acquisition id, path} per position created in the well, its path the
\* name of the position within the well; a successful require_position
\* appends the entry of a position that is new to its well after the entries
\* there, and no other call, and no repeated require_position, changes a list
C13_WellImagesOnePerPosition ==
    [][ \A i \in 1..Len(wells') :
          LET well == wells'[i]
              images == well.image_meta_list
              before == IF i <= Len(wells) THEN wells[i].image_meta_list ELSE <<>>
              created == /\ last'.op = "require_position"
                         /\ last'.result = "ok"
                         /\ <<last'.args.row, last'.args.column>> = well.name
                         /\ \A a \in 1..Len(before) : before[a].path # last'.args.fov
          IN  /\ Len(images) = Cardinality(PositionsOf(positions', well.name))
              /\ \A a \in 1..Len(images) :
                    Append(well.name, images[a].path) \in DictKeys(positions')
              /\ \A a, b \in 1..Len(images) :
                    images[a].path = images[b].path => a = b
              /\ images = IF created
                          THEN Append(before, [acquisition |-> last'.args.acq_id,
                                               path |-> last'.args.fov])
                          ELSE before
      ]_vars

\* require_position repeated for the first position of a well that holds two
C13_Witness ==
    /\ last.op = "require_position" /\ last.result = "ok"
    /\ \E i \in 1..Len(wells) :
          /\ wells[i].name = <<last.args.row, last.args.column>>
          /\ Len(wells[i].image_meta_list) = 2
          /\ wells[i].image_meta_list[1].path = last.args.fov

\* the label formats as the claims word them: letters then digits before
\* '-Site_' and digits after it; digits before '-Pos' and two runs of digits
\* joined by one underscore after it
IsLetters(s) == s # <<>> /\ \A i \in 1..Len(s) : s[i] \in Letters
IsDigits(s) == s # <<>> /\ \A i \in 1..Len(s) : s[i] \in Digits

\* the parts of a label before and after the separator at index k
Before(label, k) == SubSeq(label, 1, k - 1)
After(label, sep, k) == SubSeq(label, k + Len(sep), Len(label))

\* the longest prefix of letters of s, and what follows it
LettersPrefix(s) ==
    LET n == CHOOSE j \in 0..Len(s) :
                /\ \A i \in 1..j : s[i] \in Letters
                /\ (j < Len(s) => s[j + 1] \notin Letters)
    IN  SubSeq(s, 1, n)
DigitsSuffix(s) == SubSeq(s, Len(LettersPrefix(s)) + 1, Len(s))

SiteFormAt(label, k) ==
    /\ OccursAt(label, SiteSep, k)
    /\ IsLetters(LettersPrefix(Before(label, k)))
    /\ IsDigits(DigitsSuffix(Before(label, k)))
    /\ IsDigits(After(label, SiteSep, k))
HasSiteForm(label) == \E k \in 1..Len(label) : SiteFormAt(label, k)

PosFormAt(label, k, u) ==
    /\ OccursAt(label, PosSep, k)
    /\ IsDigits(Before(label, k))
    /\ u > k + Len(PosSep) /\ u < Len(label) /\ label[u] = "_"
    /\ IsDigits(SubSeq(label, k + Len(PosSep), u - 1))
    /\ IsDigits(SubSeq(label, u + 1, Len(label)))
HasPosForm(label) == \E k, u \in 1..Len(label) : PosFormAt(label, k, u)

HcsLabelsRead == last.op = "hcs_position_labels"
AllLabels(Form(_)) ==
    /\ stage_positions # <<>>
    /\ \A i \in 1..Len(stage_positions) : Form(stage_positions[i])

\* C14: when every label has the form <row><col>-Site_<n>, hcs_position_labels
\* returns for each label (row, col, fov), row the letters before '-Site_',
\* col the digits that follow them and fov the digits n
C14_SiteLabelsSplit ==
    (HcsLabelsRead /\ AllLabels(HasSiteForm)) =>
        /\ last.result = "ok"
        /\ Len(last.value) = Len(stage_positions)
        /\ \A i \in 1..Len(stage_positions) :
              LET label == stage_positions[i]
                  k == CHOOSE x \in 1..Len(label) : SiteFormAt(label, x)
              IN  last.value[i] = << LettersPrefix(Before(label, k)),
                                     DigitsSuffix(Before(label, k)),
                                     After(label, SiteSep, k) >>

\* C15: when every label has the form <n>-Pos<a>_<b>, hcs_position_labels
\* returns for each label ("0", n, ab), ab the digits of a followed by those
\* of b, and every element returned has three components
C15_PosLabelsSplit ==
    (HcsLabelsRead /\ AllLabels(HasPosForm)) =>
        /\ last.result = "ok"
        /\ Len(last.value) = Len(stage_positions)
        /\ \A i \in 1..Len(stage_positions) :
              LET label == stage_positions[i]
                  ku == CHOOSE x \in (1..Len(label)) \X (1..Len(label)) :
                            PosFormAt(label, x[1], x[2])
              IN  /\ Len(last.value[i]) = 3
                  /\ last.value[i] =
                        << <<"0">>, Before(label, ku[1]),
                           SubSeq(label, ku[1] + Len(PosSep), ku[2] - 1)
                              \o SubSeq(label, ku[2] + 1, Len(label)) >>

\* C16: hcs_position_labels fails with ValueError and returns nothing when
\* the list of stage positions is empty and when its labels are neither all
\* of the '-Site_' form nor all of the '-Pos' form
C16_OtherLabelsRaise ==
    ( /\ HcsLabelsRead
      /\ ~AllLabels(HasSiteForm)
      /\ ~AllLabels(HasPosForm) )
    => /\ last.result = "ValueError"
       /\ last.value = <<>>

RenamedOk == last.op = "rename_well" /\ last.result = "ok"
WellGroup(path) == Split(path, PathSep)
Under(g, group) == Len(g) >= Len(group) /\ SubSeq(g, 1, Len(group)) = group

Malformed(path) == \E i \in 1..Len(path) : path[i] \notin SafeChars \cup {"/"}

\* C18: rename_well fails with ValueError and leaves the groups of the
\* store, the row, column and well lists and the stored plate document as
\* they were when dst is a well of the plate, when src is not, and when
\* either path is malformed
C18_RenameWellRefuses ==
    [][ ( /\ last'.op = "rename_well"
          /\ \/ last'.args.dst \in SeqToSet(metadata.wells)
             \/ last'.args.src \notin SeqToSet(metadata.wells)
             \/ Malformed(last'.args.src)
             \/ Malformed(last'.args.dst) )
        => /\ last'.result = "ValueError"
           /\ metadata' = metadata
           /\ groups' = groups
           /\ attrs' = attrs
      ]_vars

\* a rename refused on a plate of two wells, from one well to the other
C18_Witness ==
    /\ last.op = "rename_well" /\ last.result = "ValueError"
    /\ Len(metadata.wells) = 2
    /\ last.args.src \in SeqToSet(metadata.wells)
    /\ last.args.dst \in SeqToSet(metadata.wells)
    /\ last.args.src # last.args.dst

ScalesOn(pipeline, a) ==
    [i \in { j \in 1..Len(pipeline) : pipeline[j].type = "scale" } |->
        pipeline[i].value[a]]
TranslationsOn(pipeline, a) ==
    [i \in { j \in 1..Len(pipeline) : pipeline[j].type = "translation" } |->
        pipeline[i].value[a]]

\* the product and the sum of the values of a function: 1 and 0 for none
RECURSIVE Product(_)
Product(f) ==
    IF DOMAIN f = {} THEN 1
    ELSE LET i == CHOOSE x \in DOMAIN f : TRUE
         IN  f[i] * Product([j \in DOMAIN f \ {i} |-> f[j]])
RECURSIVE Sum(_)
Sum(f) ==
    IF DOMAIN f = {} THEN 0
    ELSE LET i == CHOOSE x \in DOMAIN f : TRUE
         IN  f[i] + Sum([j \in DOMAIN f \ {i} |-> f[j]])

\* C20: get_effective_scale(image) returns for each axis the product of the
\* scale factors of the FOV-level pipeline and of the pipeline of the dataset
\* (1 where there is none), and get_effective_translation(image) the sum of
\* the translations of the two pipelines (0 where there is none)
C20_EffectiveScaleAndTranslation ==
    LET fov == metadata.coordinate_transformations
        own == DatasetOf(metadata, last.args.image).coordinate_transformations
    IN  /\ (last.op = "get_effective_scale" /\ last.result = "ok") =>
              \A a \in Axes :
                  last.value[a] = Product(ScalesOn(fov, a)) * Product(ScalesOn(own, a))
        /\ (last.op = "get_effective_translation" /\ last.result = "ok") =>
              \A a \in Axes :
                  last.value[a] = Sum(TranslationsOn(fov, a)) + Sum(TranslationsOn(own, a))

\* scale 2 and translation 1 at the FOV level and on the dataset: the
\* effective translation read is 2 on every axis, the effective scale 4
C20_Witness ==
    /\ last.op = "get_effective_translation" /\ last.result = "ok"
    /\ metadata.coordinate_transformations =
          <<Scale(<<2, 2, 2, 2, 2>>), Translation(<<1, 1, 1, 1, 1>>)>>
    /\ DatasetOf(metadata, last.args.image).coordinate_transformations =
          <<Scale(<<2, 2, 2, 2, 2>>), Translation(<<1, 1, 1, 1, 1>>)>>
    /\ last.value = [a \in Axes |-> 2]
    /\ FullScale(AllTransforms(metadata, last.args.image)) = [a \in Axes |-> 4]

\* a read of an image whose FOV-level pipeline is the scale (2,2,2,2,2) and
\* whose own pipeline is the translation (1,1,1,1,1)
ScaledFovTranslatedImage ==
    /\ last.op \in {"get_effective_scale", "get_effective_translation"}
    /\ last.result = "ok"
    /\ metadata.coordinate_transformations = <<Scale(<<2, 2, 2, 2, 2>>)>>
    /\ DatasetOf(metadata, last.args.image).coordinate_transformations
          = <<Translation(<<1, 1, 1, 1, 1>>)>>

AxisNamed(axis_name) ==
    LET named == { a \in Axes : AxisNames[a] = axis_name
                                  \/ AxisNames[a] = Lower(axis_name) } IN
    IF named = {} THEN 0 ELSE CHOOSE a \in named : TRUE

\* the scale and the translation of the own pipeline of a dataset
OwnScale(meta, image) ==
    FullScale(DatasetOf(meta, image).coordinate_transformations)
OwnTranslation(meta, image) ==
    FullTranslation(DatasetOf(meta, image).coordinate_transformations)

\* C22: set_scale(image, axis_name, new_scale) with new_scale > 0 sets the
\* scale of the named axis (whatever the case of the name) in the dataset's
\* own transform, leaves the translation, the other axes and the FOV-level
\* pipeline as they were and records the previous scale under the audit
\* key; with new_scale <= 0 it raises ValueError and changes neither the
\* transform nor the audit record
C22_SetScale ==
    [][(last'.op = "set_scale" /\ calls' = calls + 1) =>
          LET image == last'.args.image
              axis == AxisNamed(last'.args.axis_name)
              new_scale == last'.args.new_scale
          IN IF new_scale <= 0
             THEN /\ last'.result = "ValueError"
                  /\ metadata' = metadata
                  /\ iohub' = iohub
                  /\ attrs' = attrs
             ELSE /\ (image \in DatasetNames(metadata) /\ axis # 0)
                        <=> last'.result = "ok"
                  /\ last'.result = "ok" =>
                        /\ OwnScale(metadata', image)
                              = [OwnScale(metadata, image) EXCEPT ![axis] = new_scale]
                        /\ OwnTranslation(metadata', image)
                              = OwnTranslation(metadata, image)
                        /\ metadata'.coordinate_transformations
                              = metadata.coordinate_transformations
                        /\ DatasetNames(metadata') = DatasetNames(metadata)
                        /\ PriorScaleKey(last'.args.axis_name) \in DictKeys(iohub')
                        /\ DictGet(iohub', PriorScaleKey(last'.args.axis_name)).value
                              = OwnScale(metadata, image)[axis]
                        /\ attrs' = PositionDoc(metadata')
                  /\ last'.result # "ok" =>
                        metadata' = metadata /\ iohub' = iohub]_vars

\* the scale of z set from 3 to 10 under the name "Z" on a dataset whose
\* translation is (1,2,3,4,5), and then a scale of -1 refused
C22_Witness ==
    /\ last.op = "set_scale"
    /\ last.result = "ValueError"
    /\ last.args.new_scale = -1
    /\ "0" \in DatasetNames(metadata)
    /\ OwnScale(metadata, "0") = <<5, 4, 10, 2, 1>>
    /\ OwnTranslation(metadata, "0") = <<1, 2, 3, 4, 5>>
    /\ PriorScaleKey("Z") \in DictKeys(iohub)
    /\ DictGet(iohub, PriorScaleKey("Z")).value = 3

\* the slabs of an array that hold written data
Written(array) == { k \in DOMAIN array.data : array.data[k] # 0 }

\* C23: append_channel with resize appends exactly the one name, grows the
\* channel axis of every array by 1, keeps every slab there was and fills
\* the new ones with zeros; without resize it raises ValueError when an
\* array has not the new number of channels
C23_AppendChannel ==
    [][(last'.op = "append_channel" /\ calls' = calls + 1) =>
          IF last'.args.resize_arrays
          THEN /\ last'.result = "ok"
               /\ channel_names' = Append(channel_names, last'.args.chan_name)
               /\ DOMAIN arrays' = DOMAIN arrays
               /\ \A key \in DOMAIN arrays :
                     LET old == arrays[key]
                         new == arrays'[key]
                     IN /\ new.shape = [old.shape EXCEPT ![2] = @ + 1]
                        /\ DOMAIN new.data
                              = (0..(new.shape[1] - 1)) \X (0..(new.shape[2] - 1))
                        /\ \A k \in DOMAIN old.data : new.data[k] = old.data[k]
                        /\ \A k \in DOMAIN new.data \ DOMAIN old.data : new.data[k] = 0
          ELSE (\E key \in DOMAIN arrays :
                    arrays[key].shape[2] # Len(channel_names) + 1)
                  => last'.result = "ValueError"]_vars

\* a channel appended with resize to a node that has an array of written
\* data, which it still holds next to a new channel of zeros
C23_Witness ==
    /\ last.op = "append_channel"
    /\ last.args.resize_arrays
    /\ last.result = "ok"
    /\ \E key \in DOMAIN arrays :
          /\ Written(arrays[key]) # {}
          /\ \E k \in DOMAIN arrays[key].data : k \notin Written(arrays[key])

\* a channel appended without resize to a node that has an array
C23_WitnessRefused ==
    /\ last.op = "append_channel"
    /\ ~last.args.resize_arrays
    /\ last.result = "ValueError"

\* the extent of the channel axis of a shape: the second of five
\* dimensions, a single channel for less
ChannelExtent(shape) == IF Len(shape) = NumAxes THEN shape[2] ELSE 1

\* C26: create_image and create_zeros on a node with n channel names raise
\* ValueError whenever the channel axis of the data or shape has not extent
\* n; no array is then created and the multiscale stays as it was
C26_ChannelCountChecked ==
    [][(last'.op \in {"create_image", "create_zeros"} /\ calls' = calls + 1
          /\ ChannelExtent(last'.args.shape) # Len(channel_names)) =>
             /\ last'.result = "ValueError"
             /\ arrays' = arrays
             /\ metadata' = metadata
             /\ attrs' = attrs]_vars

\* data of three channels refused by a node of two channel names that has
\* an array
C26_Witness ==
    /\ last.op = "create_image"
    /\ last.result = "ValueError"
    /\ last.args.shape = <<1, 3, 1, 2, 2>>
    /\ Len(channel_names) = 2
    /\ arrays # <<>>

\* C24: get_tile(row, column) on a grid of rows x columns tiles succeeds
\* exactly when row and column are integers with 0 <= row < rows and
\* 0 <= column < columns, and then returns the slice
\* [row*tile_h:(row+1)*tile_h, column*tile_w:(column+1)*tile_w]; a coordinate
\* that is not an integer raises TypeError, one out of range (negative ones
\* included) raises IndexError
C24_GetTile ==
    last.op = "get_tile" =>
        LET row == last.args.row
            column == last.args.column
            integers == row.type = "int" /\ column.type = "int"
            inRange == /\ row.value \in 0..(tiles.rows - 1)
                       /\ column.value \in 0..(tiles.columns - 1)
            tile_h == tiles.shape[4] \div tiles.rows
            tile_w == tiles.shape[5] \div tiles.columns
        IN /\ last.result = "ok" <=> (integers /\ inRange)
           /\ last.result = "ok" =>
                 last.value = << <<row.value * tile_h, (row.value + 1) * tile_h>>,
                                 <<column.value * tile_w, (column.value + 1) * tile_w>> >>
           /\ ~integers => last.result = "TypeError"
           /\ (integers /\ ~inRange) => last.result = "IndexError"

\* the tile (1, 1) of a 2 x 2 grid of tiles of 2 x 3 read
C24_Witness ==
    /\ last.op = "get_tile"
    /\ last.result = "ok"
    /\ tiles.rows = 2 /\ tiles.columns = 2
    /\ last.value = << <<2, 4>>, <<3, 6>> >>

\* the tile (-1, 0) of a 2 x 2 grid refused
C24_WitnessNegative ==
    /\ last.op = "get_tile"
    /\ last.result = "IndexError"
    /\ tiles.rows = 2 /\ tiles.columns = 2
    /\ last.args.row = PyInt(-1)
    /\ last.args.column = PyInt(0)

\* what a mutation of a node changes
Mutable == <<channel_names, groups, arrays, attrs, metadata, iohub>>

C27_NoMetaWithoutAutoMeta ==
    [][(last'.op = "write_zstack" /\ calls' = calls + 1 /\ ~last'.args.auto_meta) =>
          attrs' = attrs]_vars

\* an index given for a name that a registry holds under another id
Conflicts(registry, name, index) ==
    /\ index # NoIndex
    /\ name \in DictKeys(registry)
    /\ DictGet(registry, name).id # index

\* C28: require_row with an index given for a row that exists under another
\* id, and require_well with a col_index given for a column that exists
\* under another id, raise ValueError for every such index (0 included) and
\* leave the registries of rows, columns and wells and the groups of the
\* store as they were
C28_IndexConflictRefused ==
    [][(/\ calls' = calls + 1
        /\ \/ /\ last'.op = "require_row"
              /\ Conflicts(rows, last'.args.name, last'.args.index)
           \/ /\ last'.op = "require_well"
              /\ Conflicts(columns, last'.args.col_name, last'.args.col_index)) =>
          /\ last'.result = "ValueError"
          /\ UNCHANGED <<rows, columns, wells, groups>>]_vars

\* the slab a step wrote, if the step is a write_zstack that returned
WroteSlab(key, k) ==
    /\ last'.op = "write_zstack"
    /\ calls' = calls + 1
    /\ last'.result = "ok"
    /\ key = <<last'.args.group, NameOf(last'.args.name)>>
    /\ k = <<last'.args.time_index, last'.args.channel_index>>

\* C29: a write_zstack that returns at (t, c) changes the slab [t, c] of its
\* array and no other slab of any array; whatever the step, an array stays,
\* a slab that was there reads what it read unless the step wrote it, and a
\* slab that the step added reads zeros unless the step wrote it: so every
\* slab reads the block last written to it, or zeros if none was
C29_OnlyTheSlabWritten ==
    [][/\ DOMAIN arrays \subseteq DOMAIN arrays'
       /\ \A key \in DOMAIN arrays' : \A k \in DOMAIN arrays'[key].data :
             IF WroteSlab(key, k)
             THEN arrays'[key].data[k] = calls'
             ELSE IF key \in DOMAIN arrays /\ k \in DOMAIN arrays[key].data
             THEN arrays'[key].data[k] = arrays[key].data[k]
             ELSE arrays'[key].data[k] = 0
       /\ \A key \in DOMAIN arrays : \A k \in DOMAIN arrays[key].data :
             k \in DOMAIN arrays'[key].data
       /\ \A key \in DOMAIN arrays', k \in (0..3) \X (0..3) :
             WroteSlab(key, k) => k \in DOMAIN arrays'[key].data]_vars

\* an array grown by a write at (1, 0) and by a second at (0, 1): the slab
\* of the first write reads its block, the slab of the second its own, and
\* the slabs that growth added and no write reached read zeros
C29_Witness ==
    /\ last.op = "write_zstack"
    /\ last.result = "ok"
    /\ LastKey \in DOMAIN arrays
    /\ LET data == arrays[LastKey].data IN
          /\ <<1, 1>> \in DOMAIN data
          /\ data[<<1, 0>>] = 1
          /\ data[<<0, 1>>] = 2
          /\ data[<<0, 0>>] = 0
          /\ data[<<1, 1>>] = 0

\* C30: in the plate document that a write of HCSWriter leaves on the root,
\* the rowIndex and columnIndex of every well are the ids registered for
\* the names of its row and column and are positions of the document's
\* lists of rows and columns, and field_count is the number of distinct
\* positions registered
C30_PlateDocumentConsistent ==
    (kind = "HCSWriter" /\ LastWrote) =>
        LET plate == attrs[Root].plate IN
        /\ plate # NoDoc
        /\ \A i \in 1..Len(plate.wells) :
              LET well == plate.wells[i] IN
              /\ well.path[1] \in DictKeys(rows)
              /\ well.path[2] \in DictKeys(columns)
              /\ well.rowIndex = DictGet(rows, well.path[1]).id
              /\ well.columnIndex = DictGet(columns, well.path[2]).id
              /\ well.rowIndex \in 0..(Len(plate.rows) - 1)
              /\ well.columnIndex \in 0..(Len(plate.columns) - 1)
        /\ plate.field_count
              = Cardinality({ positions[i].name : i \in 1..Len(positions) })

====
